---- MODULE Spec2Model ----
(***************************************************************************)
(* A model of scripts/biorxiv_digest.py: the catalog paging loop, the      *)
(* deduplication / sort / identifier assignment of load_recent_papers,     *)
(* call_gemini with its fallback endpoint, extract_json, the selection     *)
(* handling of main, build_email_html and the send_email that main calls.  *)
(*                                                                         *)
(* Strings are sequences of one-character strings, so that strip(),        *)
(* int() and the lexicographic order of the sort are computed, not         *)
(* assumed.                                                                *)
(***************************************************************************)
EXTENDS Integers, Sequences, FiniteSets, TLC

VARIABLES
    \* load_recent_papers on concrete rows (specification SpecLoad)
    all_rows,   \* the rows accumulated by the paging loop
    deduped,    \* the list returned by dedupe_keep_latest_version
    papers,     \* the Paper list returned by load_recent_papers
    lpc,        \* position in load_recent_papers after the loop
    \* one run of main (specifications Spec and SpecDigest)
    environ,    \* os.environ: the settings of the run
    reply,      \* the answer received from the generative-text service
    pc,         \* where main is: the next blocking call, or "exit"
    exit_code,  \* the process's exit code; -1 while main runs
    error,      \* the exception that ended the run; "none" if none
    cursor,     \* load_recent_papers.cursor
    total,      \* load_recent_papers.total; None is -1
    n_dois,     \* the distinct DOIs among all_rows (what dedupe will return)
    pages,      \* the pages received so far: how many, their rows, the total advertised
    n_papers,   \* len(papers) in main; None (-1) until load_recent_papers returns
    n_for_ai,   \* len(papers_for_ai)
    net,        \* every request sent so far, in order, and whether it succeeded
    sections,   \* build_email_html: whether it returned, and its paper sections
    top_given,  \* ai["top_papers"] as parsed
    sent,       \* the messages handed to the mail relay
    \* extract_json on its own (specification SpecJson)
    jtext,      \* a response text
    jfence,     \* the code fence put around it
    jout        \* extract_json of the text, and of the fenced text

loadVars == <<all_rows, deduped, papers, lpc>>

mainVars == <<environ, reply, pc, exit_code, error, cursor, total, n_dois, pages,
              n_papers, n_for_ai, net, sections, top_given, sent>>

vars == <<all_rows, deduped, papers, lpc, environ, reply, pc, exit_code, error,
          cursor, total, n_dois, pages, n_papers, n_for_ai, net, sections,
          top_given, sent, jtext, jfence, jout>>

jsonVars == <<jtext, jfence, jout>>

-----------------------------------------------------------------------------
(* Bounds of the model *)

MaxRows == 3

\* Catalog requests of one run the model follows
MaxPages == 3

\* Longest top_papers list the service returns
MaxTop == 6

\* Longest response text, in tokens, extract_json is applied to
MaxText == 5

-----------------------------------------------------------------------------
(* Strings *)

\* Code point of the characters the model uses (Python compares str by code point).
Ord(c) ==
    CASE c = " " -> 32
      [] c = "-" -> 45
      [] c = "0" -> 48
      [] c = "1" -> 49
      [] c = "2" -> 50
      [] c = "3" -> 51
      [] c = "4" -> 52
      [] c = "5" -> 53
      [] c = "6" -> 54
      [] c = "7" -> 55
      [] c = "8" -> 56
      [] c = "9" -> 57
      [] c = "P" -> 80
      [] c = "a" -> 97
      [] c = "b" -> 98
      [] c = "x" -> 120
      [] OTHER   -> 63

IsDigit(c) == c \in {"0", "1", "2", "3", "4", "5", "6", "7", "8", "9"}

DigitVal(c) == Ord(c) - 48

RECURSIVE LStrip(_)
LStrip(s) == IF s # <<>> /\ Head(s) = " " THEN LStrip(Tail(s)) ELSE s

RECURSIVE RStrip(_)
RStrip(s) ==
    IF s # <<>> /\ s[Len(s)] = " " THEN RStrip(SubSeq(s, 1, Len(s) - 1)) ELSE s

\* str.strip()
Strip(s) == RStrip(LStrip(s))

\* s < t in Python's order on str
RECURSIVE StrLess(_, _)
StrLess(s, t) ==
    IF t = <<>> THEN FALSE
    ELSE IF s = <<>> THEN TRUE
    ELSE IF Ord(Head(s)) # Ord(Head(t)) THEN Ord(Head(s)) < Ord(Head(t))
    ELSE StrLess(Tail(s), Tail(t))

RECURSIVE DigitsVal(_, _)
DigitsVal(s, acc) ==
    IF s = <<>> THEN acc ELSE DigitsVal(Tail(s), 10 * acc + DigitVal(Head(s)))

AllDigits(s) == s # <<>> /\ \A i \in 1..Len(s) : IsDigit(s[i])

\* int(s): surrounding whitespace is ignored, an optional sign, then digits.
\* ok = FALSE stands for the ValueError.
ParseInt(s) ==
    LET t == Strip(s) IN
    IF t # <<>> /\ Head(t) = "-" /\ AllDigits(Tail(t))
        THEN [ok |-> TRUE, val |-> 0 - DigitsVal(Tail(t), 0)]
    ELSE IF AllDigits(t)
        THEN [ok |-> TRUE, val |-> DigitsVal(t, 0)]
    ELSE [ok |-> FALSE, val |-> 0]

-----------------------------------------------------------------------------
(* dedupe_keep_latest_version *)

\* try: v = int(v_raw) except Exception: v = -1
VersionOf(row) ==
    LET p == ParseInt(Strip(row.version)) IN IF p.ok THEN p.val ELSE 0 - 1

\* try: existing_v = int(str(best[doi].get("version", "-1"))) except: -1
ExistingVersionOf(row) ==
    LET p == ParseInt(row.version) IN IF p.ok THEN p.val ELSE 0 - 1

DoiKey(row) == Strip(row.doi)

\* The index in best (a dict, kept in insertion order of its keys) of key doi; 0 if absent.
BestIndex(best, doi) ==
    IF \E i \in 1..Len(best) : DoiKey(best[i]) = doi
        THEN CHOOSE i \in 1..Len(best) : DoiKey(best[i]) = doi
        ELSE 0

\* if v > existing_v
Replaces(v, existing_v) == v > existing_v

\* One iteration of "for row in rows"
DedupeStep(best, row) ==
    LET doi == DoiKey(row)
        i   == BestIndex(best, doi)
    IN  IF doi = <<>> THEN best
        ELSE IF i = 0 THEN Append(best, row)
        ELSE IF Replaces(VersionOf(row), ExistingVersionOf(best[i]))
            THEN [best EXCEPT ![i] = row]
        ELSE best

RECURSIVE DedupeFrom(_, _)
DedupeFrom(best, rows) ==
    IF rows = <<>> THEN best
    ELSE DedupeFrom(DedupeStep(best, Head(rows)), Tail(rows))

dedupe_keep_latest_version(rows) == DedupeFrom(<<>>, rows)

-----------------------------------------------------------------------------
(* load_recent_papers after the paging loop: sort and identifiers *)

\* key=lambda r: str(r.get("date", "")): the date as received, not stripped
SortKey(row) == row.date

\* Where list.sort(reverse=True), which is stable, puts row into the sorted
\* list s: after every element whose key is not smaller than its own.
RECURSIVE InsertDesc(_, _)
InsertDesc(s, row) ==
    IF s = <<>> THEN <<row>>
    ELSE IF StrLess(SortKey(Head(s)), SortKey(row)) THEN <<row>> \o s
    ELSE <<Head(s)>> \o InsertDesc(Tail(s), row)

RECURSIVE SortFrom(_, _)
SortFrom(s, rows) ==
    IF rows = <<>> THEN s ELSE SortFrom(InsertDesc(s, Head(rows)), Tail(rows))

\* rows.sort(key=..., reverse=True)
SortByDateDesc(rows) == SortFrom(<<>>, rows)

DigitChar(d) == CASE d = 0 -> "0" [] d = 1 -> "1" [] d = 2 -> "2" [] d = 3 -> "3"
                  [] d = 4 -> "4" [] d = 5 -> "5" [] d = 6 -> "6" [] d = 7 -> "7"
                  [] d = 8 -> "8" [] OTHER -> "9"

RECURSIVE Decimal(_)
Decimal(n) ==
    IF n < 10 THEN <<DigitChar(n)>> ELSE Decimal(n \div 10) \o <<DigitChar(n % 10)>>

\* f"P{i:02d}"
Pid(i) == IF i < 10 THEN <<"P", "0", DigitChar(i)>> ELSE <<"P">> \o Decimal(i)

\* Paper(pid=pid, doi=str(r.get("doi", "")).strip(), ...) ; the fields the
\* model follows are pid, doi, version and date.
MakePaper(i, r) ==
    [pid |-> Pid(i), doi |-> Strip(r.doi), version |-> Strip(r.version),
     date |-> Strip(r.date)]

\* for i, r in enumerate(rows, start=1): papers.append(Paper(...))
BuildPapers(rows) == [i \in 1..Len(rows) |-> MakePaper(i, rows[i])]

-----------------------------------------------------------------------------
(* Catalog rows the model draws from *)

Row(d, v, t) == [doi |-> d, version |-> v, date |-> t]

DoiStrings == {<<>>, <<"a">>, <<" ", "a">>, <<"b">>}

VersionStrings == {<<"x">>, <<"1">>, <<"2">>, <<"-", "2">>}

DateStrings == {<<"1">>, <<"2">>, <<" ", "2">>}

\* Rows that differ in DOI and version (one date)
RowsByVersion == {Row(d, v, <<"1">>) : d \in DoiStrings, v \in VersionStrings}

\* Rows that differ in DOI and date
RowsByDate ==
    {Row(d, v, t) : d \in DoiStrings \ {<<>>}, v \in {<<"1">>, <<"2">>}, t \in DateStrings}

SeqsUpTo(S, n) == UNION {[1..k -> S] : k \in 0..n}

-----------------------------------------------------------------------------
(* Specification SpecLoad: load_recent_papers from the end of its loop *)

IdleJson ==
    /\ jtext = <<>>
    /\ jfence = <<>>
    /\ jout = <<>>

IdleMain ==
    /\ environ = <<>>
    /\ reply = [kind |-> "none", text |-> <<>>, top |-> [list |-> TRUE, items |-> <<>>]]
    /\ pc = "idle"
    /\ exit_code = 0 - 1
    /\ error = "none"
    /\ cursor = 0
    /\ total = 0 - 1
    /\ n_dois = 0
    /\ pages = [count |-> 0, rows |-> 0, last |-> 0, shape |-> "none",
                advertised |-> 0 - 1, full |-> TRUE]
    /\ n_papers = 0 - 1
    /\ n_for_ai = 0
    /\ net = <<>>
    /\ sections = [built |-> FALSE, items |-> <<>>]
    /\ top_given = [list |-> TRUE, items |-> <<>>]
    /\ sent = <<>>

InitLoad ==
    /\ IdleMain
    /\ IdleJson
    /\ all_rows \in SeqsUpTo(RowsByVersion, MaxRows) \cup SeqsUpTo(RowsByDate, MaxRows)
    /\ deduped = <<>>
    /\ papers = <<>>
    /\ lpc = "loop_done"

\* Lines 156-176: dedupe, sort, build the Paper list, return.
LoadFinish ==
    /\ lpc = "loop_done"
    /\ deduped' = dedupe_keep_latest_version(all_rows)
    /\ papers' = BuildPapers(SortByDateDesc(deduped'))
    /\ lpc' = "returned"
    /\ UNCHANGED all_rows
    /\ UNCHANGED mainVars
    /\ UNCHANGED jsonVars

NextLoad == LoadFinish

SpecLoad == InitLoad /\ [][NextLoad]_vars

-----------------------------------------------------------------------------
(* C1 *)

RowsWithDoi(d) == {i \in 1..Len(all_rows) : DoiKey(all_rows[i]) = d}

ParseableWithDoi(d) == {i \in RowsWithDoi(d) : ParseInt(all_rows[i].version).ok}

MaxParseable(d) ==
    CHOOSE m \in {ParseInt(all_rows[i].version).val : i \in ParseableWithDoi(d)} :
        \A i \in ParseableWithDoi(d) : ParseInt(all_rows[i].version).val <= m

FirstWithMax(d) ==
    CHOOSE i \in ParseableWithDoi(d) :
        /\ ParseInt(all_rows[i].version).val = MaxParseable(d)
        /\ \A k \in ParseableWithDoi(d) :
              ParseInt(all_rows[k].version).val = MaxParseable(d) => i <= k

\* C1: the list dedupe_keep_latest_version returns holds exactly one row for
\* every DOI of the input (a row without a DOI has none), and where rows with
\* that DOI have a parseable version, the row kept is the first input row that
\* has the greatest parseable version.
C1_KeepsMaxParseableVersion ==
    lpc = "returned" =>
        /\ \A i \in 1..Len(all_rows) :
              DoiKey(all_rows[i]) # <<>> =>
                  Cardinality({j \in 1..Len(deduped) :
                                  DoiKey(deduped[j]) = DoiKey(all_rows[i])}) = 1
        /\ \A j \in 1..Len(deduped) :
              /\ RowsWithDoi(DoiKey(deduped[j])) # {}
              /\ ParseableWithDoi(DoiKey(deduped[j])) # {} =>
                    deduped[j] = all_rows[FirstWithMax(DoiKey(deduped[j]))]

-----------------------------------------------------------------------------
(* C2 *)

\* C2: the Paper list load_recent_papers returns is in descending order of its
\* date strings, its i-th paper has the identifier P01, P02, ... of its
\* position, and no two of its papers have the same DOI.
C2_SortedNumberedUnique ==
    lpc = "returned" =>
        /\ \A i, j \in 1..Len(papers) :
              i < j => ~StrLess(papers[i].date, papers[j].date)
        /\ \A i \in 1..Len(papers) : papers[i].pid = Pid(i)
        /\ \A i, j \in 1..Len(papers) : i # j => papers[i].pid # papers[j].pid
        /\ \A i, j \in 1..Len(papers) : i # j => papers[i].doi # papers[j].doi

-----------------------------------------------------------------------------
(* C11 *)

FirstWithDoi(d) == CHOOSE i \in RowsWithDoi(d) : \A k \in RowsWithDoi(d) : i <= k

\* C11: a row whose version is not an integer loses to every row of its DOI
\* whose version is one, in whatever order the rows come: the row kept for a
\* DOI has a parseable version whenever some input row of that DOI has one,
\* and is the first input row of that DOI when none has.
C11_UnparseableLosesToParseable ==
    lpc = "returned" =>
        \A j \in 1..Len(deduped) :
            LET d == DoiKey(deduped[j]) IN
                IF ParseableWithDoi(d) # {}
                    THEN ParseInt(deduped[j].version).ok
                    ELSE deduped[j] = all_rows[FirstWithDoi(d)]

\* The second half alone: with no parseable version among the rows of a DOI
\* the first-seen row is the one kept.
C11_FirstSeenKeptWhenNoneParseable ==
    lpc = "returned" =>
        \A j \in 1..Len(deduped) :
            LET d == DoiKey(deduped[j]) IN
                ParseableWithDoi(d) = {} => deduped[j] = all_rows[FirstWithDoi(d)]

-----------------------------------------------------------------------------
(* extract_json *)

(* A response text is a sequence of tokens: "F" is a code fence ```, "J" the  *)
(* word json, " " white space, "{" and "}" braces, "T" the member             *)
(* "top_papers": ..., "M" any other member, "P" a word of prose.              *)

\* The text without its white space
RECURSIVE Squeeze(_)
Squeeze(s) ==
    IF s = <<>> THEN <<>>
    ELSE IF Head(s) = " " THEN Squeeze(Tail(s))
    ELSE <<Head(s)>> \o Squeeze(Tail(s))

\* Opening minus closing braces among the first i tokens
RECURSIVE Depth(_, _)
Depth(s, i) ==
    IF i = 0 THEN 0
    ELSE Depth(s, i - 1) + (IF s[i] = "{" THEN 1 ELSE IF s[i] = "}" THEN 0 - 1 ELSE 0)

\* json.loads accepts s and returns a dict: one object, members or nested
\* objects inside, nothing before or after it but white space.
IsJsonObject(s) ==
    LET t == Squeeze(s) IN
    /\ t # <<>>
    /\ t[1] = "{"
    /\ \A i \in 1..Len(t) : t[i] \in {"{", "}", "T", "M"}
    /\ \A i \in 1..(Len(t) - 1) : Depth(t, i) > 0
    /\ Depth(t, Len(t)) = 0

\* json.loads(s): the parsed value is the text without its white space.
JsonLoads(s) ==
    IF IsJsonObject(s) THEN [ok |-> TRUE, val |-> Squeeze(s), err |-> "none"]
    ELSE [ok |-> FALSE, val |-> <<>>, err |-> "JSONDecodeError"]

\* re.sub(r"^```(?:json)?\s*", "", cleaned)
StripOpeningFence(s) ==
    IF s # <<>> /\ Head(s) = "F"
        THEN IF Len(s) >= 2 /\ s[2] = "J" THEN LStrip(SubSeq(s, 3, Len(s)))
             ELSE LStrip(Tail(s))
        ELSE s

\* re.sub(r"\s*```$", "", cleaned)
StripClosingFence(s) ==
    IF s # <<>> /\ s[Len(s)] = "F" THEN RStrip(SubSeq(s, 1, Len(s) - 1)) ELSE s

FirstOpen(s) == CHOOSE i \in 1..Len(s) : s[i] = "{" /\ \A k \in 1..(i - 1) : s[k] # "{"

LastClose(s) == CHOOSE i \in 1..Len(s) : s[i] = "}" /\ \A k \in (i + 1)..Len(s) : s[k] # "}"

FirstCloseAfter(s, i) ==
    CHOOSE k \in (i + 1)..Len(s) : s[k] = "}" /\ \A n \in (i + 1)..(k - 1) : s[n] # "}"

\* SearchBraces with a lazy quantifier, r"\{.*?\}"
SearchBracesLazy(s) ==
    IF /\ \E i \in 1..Len(s) : s[i] = "{"
       /\ \E i \in 1..Len(s) : s[i] = "}"
       /\ FirstOpen(s) < LastClose(s)
        THEN [found |-> TRUE,
              span |-> SubSeq(s, FirstOpen(s), FirstCloseAfter(s, FirstOpen(s)))]
        ELSE [found |-> FALSE, span |-> <<>>]

\* re.search(r"\{.*\}", cleaned, flags=re.DOTALL): from the first "{" to the
\* last "}" after it; found = FALSE when there is no match.
SearchBraces(s) ==
    IF /\ \E i \in 1..Len(s) : s[i] = "{"
       /\ \E i \in 1..Len(s) : s[i] = "}"
       /\ FirstOpen(s) < LastClose(s)
        THEN [found |-> TRUE, span |-> SubSeq(s, FirstOpen(s), LastClose(s))]
        ELSE [found |-> FALSE, span |-> <<>>]

extract_json(text) ==
    LET cleaned == StripClosingFence(StripOpeningFence(Strip(text)))
        m       == SearchBraces(cleaned)
    IN  IF cleaned # <<>> /\ Head(cleaned) = "{" /\ cleaned[Len(cleaned)] = "}"
            THEN JsonLoads(cleaned)
        ELSE IF ~m.found
            THEN [ok |-> FALSE, val |-> <<>>, err |-> "ValueError"]
        ELSE JsonLoads(m.span)

-----------------------------------------------------------------------------
(* env and the settings of a run *)

RequiredInMain == {"DIGEST_INTERESTS", "GEMINI_API_KEY"}

RequiredInSend == {"SMTP_HOST", "SMTP_USER", "SMTP_PASSWORD", "EMAIL_TO"}

Required == RequiredInMain \cup RequiredInSend

\* A setting that is absent (os.environ.get gives None) or empty: "not v" holds.
Unset(v) == v = <<>>

\* env(name, required=True) raises RuntimeError("Missing required env var")
EnvMissing(name) == Unset(environ[name])

\* int(env("MAX_PAPERS_FOR_AI", "60") or "60")
MaxForAi ==
    IF Unset(environ["MAX_PAPERS_FOR_AI"]) THEN 60
    ELSE ParseInt(environ["MAX_PAPERS_FOR_AI"]).val

\* re.split(r"[;,]+", raw), the parts from position i on, cur being the part read so far
RECURSIVE SplitFrom(_, _, _)
SplitFrom(raw, i, cur) ==
    IF i > Len(raw) THEN <<cur>>
    ELSE IF raw[i] \in {",", ";"} THEN <<cur>> \o SplitFrom(raw, i + 1, <<>>)
    ELSE SplitFrom(raw, i + 1, Append(cur, raw[i]))

RECURSIVE NonEmptyStripped(_)
NonEmptyStripped(parts) ==
    IF parts = <<>> THEN <<>>
    ELSE IF Strip(Head(parts)) = <<>> THEN NonEmptyStripped(Tail(parts))
    ELSE <<Strip(Head(parts))>> \o NonEmptyStripped(Tail(parts))

\* _parse_recipients(raw)
ParseRecipients(raw) ==
    IF raw = <<>> THEN <<>> ELSE NonEmptyStripped(SplitFrom(raw, 1, <<>>))

Range(f) == {f[i] : i \in DOMAIN f}

-----------------------------------------------------------------------------
(* The catalog paging loop of load_recent_papers *)

PageSize == 100

None == 0 - 1

\* A response of the catalog: the shape of the JSON body, the number of rows,
\* how many of them bring a DOI not seen before, and messages[0].total.
\*   shape "envelope": a dict with a list under "collection"
\*   shape "list":     a bare list of rows
\*   shape "other":    a dict without a usable "collection"
TotalFields ==
    {[t |-> "absent"], [t |-> "num", v |-> 100], [t |-> "num", v |-> 150],
     [t |-> "str", s |-> <<"1", "5", "0">>], [t |-> "str", s |-> <<"-", "5">>]}

PageLens == {0, 30, PageSize}

Payloads ==
    {[shape |-> "envelope", len |-> n, fresh |-> f, totalf |-> tf] :
        n \in PageLens, f \in PageLens, tf \in TotalFields}
    \cup {[shape |-> "list", len |-> n, fresh |-> f, totalf |-> [t |-> "absent"]] :
        n \in PageLens, f \in PageLens}
    \cup {[shape |-> "other", len |-> 0, fresh |-> 0, totalf |-> [t |-> "absent"]]}

\* The new DOIs of a payload are among its rows: none of them, or all.
CatalogPayloads == {p \in Payloads : p.fresh \in {0, p.len}}

\* len(normalize_collection(payload))
NormalizedLen(payload) ==
    IF payload.shape \in {"envelope", "list"} THEN payload.len ELSE 0

\* parse_total(payload); ok = FALSE is the AttributeError of payload.get on a list
parse_total(payload) ==
    IF payload.shape = "list" THEN [ok |-> FALSE, val |-> None]
    ELSE IF payload.totalf.t = "num" THEN [ok |-> TRUE, val |-> payload.totalf.v]
    ELSE IF payload.totalf.t = "str" /\ AllDigits(payload.totalf.s)
        THEN [ok |-> TRUE, val |-> DigitsVal(payload.totalf.s, 0)]
    ELSE [ok |-> TRUE, val |-> None]

\* if len(rows) < 100: break
ShortPage(n) == n < PageSize

\* if total is not None and cursor >= total: break
TotalReached(c, t) == t # None /\ c >= t

\* One pass of the while loop on a received payload: what the loop does next
\* ("again", "break", "raise") and its variables after the pass.
LoopPass(payload) ==
    LET n  == NormalizedLen(payload)
        pt == IF total = None THEN parse_total(payload) ELSE [ok |-> TRUE, val |-> total]
        c  == cursor + n
    IN  IF n = 0
            THEN [next |-> "break", cursor |-> cursor, total |-> total, dois |-> n_dois]
        ELSE IF ~pt.ok
            THEN [next |-> "raise", cursor |-> cursor, total |-> total,
                  dois |-> n_dois + payload.fresh]
        ELSE IF ShortPage(n) \/ TotalReached(c, pt.val)
            THEN [next |-> "break", cursor |-> c, total |-> pt.val,
                  dois |-> n_dois + payload.fresh]
        ELSE [next |-> "again", cursor |-> c, total |-> pt.val,
              dois |-> n_dois + payload.fresh]

\* The total a payload advertises in messages[0].total, None if it has none
Advertised(payload) ==
    IF payload.shape = "list" THEN None
    ELSE IF payload.totalf.t = "num" THEN payload.totalf.v
    ELSE IF payload.totalf.t = "str" /\ AllDigits(payload.totalf.s)
        THEN DigitsVal(payload.totalf.s, 0)
    ELSE None

NoPages ==
    [count |-> 0, rows |-> 0, last |-> 0, shape |-> "none", advertised |-> None,
     full |-> TRUE]

\* The record of the pages received, after one more
Received(seen, payload) ==
    LET n == NormalizedLen(payload) IN
    [count |-> seen.count + 1,
     rows |-> seen.rows + n,
     last |-> n,
     shape |-> payload.shape,
     advertised |-> IF seen.advertised = None /\ n > 0
                        THEN Advertised(payload) ELSE seen.advertised,
     full |-> seen.full /\ n = PageSize]

CatalogRequests == {i \in 1..Len(net) : net[i].to = "catalog"}

\* papers[: max(10, min(max_for_ai, len(papers)))]
ForAi(n) ==
    LET m  == IF MaxForAi < n THEN MaxForAi ELSE n
        hi == IF m > 10 THEN m ELSE 10
    IN  IF hi < n THEN hi ELSE n

-----------------------------------------------------------------------------
(* call_gemini *)

\* requests.post(endpoint, headers=headers, data=json.dumps(body), timeout=60)
GeminiRequest(endpoint, ok) ==
    [to |-> "gemini", endpoint |-> endpoint,
     headers |-> [key |-> environ["GEMINI_API_KEY"]],
     body |-> [prompt |-> n_for_ai], ok |-> ok]

\* The request of the try branch
PrimaryRequest(ok) == GeminiRequest("gemini-2.5-flash", ok)

\* FallbackRequest with headers of its own
FallbackRequestOtherHeaders(ok) ==
    [to |-> "gemini", endpoint |-> "gemini-2.5-flash-lite",
     headers |-> [key |-> <<>>], body |-> [prompt |-> n_for_ai], ok |-> ok]

\* The request of the except branch
FallbackRequest(ok) == GeminiRequest("gemini-2.5-flash-lite", ok)

\* What call_gemini returns for a decoded response: the joined text of
\* candidates[0].content.parts, or json.dumps(data) when there is none.
GeminiText(kind, answer) ==
    IF kind = "candidates" THEN Strip(answer.text) ELSE <<"{", "M", "}">>

\* The text call_gemini returns, with the value its top_papers member has
Returned(kind, answer) ==
    [kind |-> kind, text |-> GeminiText(kind, answer),
     top |-> IF kind = "candidates" THEN answer.top
             ELSE [list |-> TRUE, items |-> <<>>]]

-----------------------------------------------------------------------------
(* main after call_gemini: selection, rendering, send_email's settings *)

\* ai.get("top_papers", []): the value of a member at the top level, or []
TopPapersOf(val, r) ==
    IF \E i \in 1..Len(val) : val[i] = "T" /\ Depth(val, i - 1) = 1
        THEN r.top ELSE [list |-> TRUE, items |-> <<>>]

\* isinstance(top_papers, list)
IsList(v) == v.list

\* KeepFirst without the slice
KeepAll(items) == items

\* top_papers[:5]
KeepFirst(items) == SubSeq(items, 1, IF Len(items) < 5 THEN Len(items) ELSE 5)

\* id_to_paper.get(pid) with id_to_paper = {p.pid: p for p in papers_for_ai}:
\* the position in papers_for_ai of the paper with that pid, 0 if there is none
IdToPaper(pid) ==
    IF \E i \in 1..n_for_ai : Pid(i) = pid
        THEN CHOOSE i \in 1..n_for_ai : Pid(i) = pid
        ELSE 0

\* The loop of build_email_html from position idx of top on: one section per
\* entry that names a known paper (paper = 0 marks an entry that is not a dict:
\* it has no .get, and the loop raises there).
RECURSIVE RenderFrom(_, _)
RenderFrom(top, idx) ==
    IF idx > Len(top) THEN <<>>
    ELSE IF ~top[idx].dict THEN <<[idx |-> idx, paper |-> 0]>>
    ELSE LET p == IdToPaper(Strip(top[idx].id)) IN
         IF p = 0 THEN RenderFrom(top, idx + 1)
         ELSE <<[idx |-> idx, paper |-> p]>> \o RenderFrom(top, idx + 1)

Raised(secs) == \E i \in 1..Len(secs) : secs[i].paper = 0

\* The message the bound send_email builds and the addresses send_message(msg)
\* derives from its headers: only To is set.
BuildMessage ==
    [headers |-> [From |-> environ["SMTP_USER"], To |-> environ["EMAIL_TO"]],
     rcpts |-> Range(ParseRecipients(environ["EMAIL_TO"]))]

-----------------------------------------------------------------------------
(* Specification Spec: one run of main *)

IdleLoad ==
    /\ all_rows = <<>>
    /\ deduped = <<>>
    /\ papers = <<>>
    /\ lpc = "idle"

Settings ==
    [DIGEST_INTERESTS : {<<>>, <<"v">>}, GEMINI_API_KEY : {<<>>, <<"v">>},
     SMTP_HOST : {<<>>, <<"v">>}, SMTP_USER : {<<>>, <<"v">>},
     SMTP_PASSWORD : {<<>>, <<"v">>},
     EMAIL_TO : {<<>>, <<"a">>, <<"a", ",", " ", "b">>},
     EMAIL_CC : {<<>>, <<"c">>},
     EMAIL_BCC : {<<>>, <<"d">>},
     MAX_PAPERS_FOR_AI : {<<>>}]

\* The answers of the generative-text service the run may get: the text of
\* the candidate and the value it gives top_papers.
Entry(id) == [dict |-> TRUE, id |-> id]

NotADict == [dict |-> FALSE, id |-> <<>>]

List(items) == [list |-> TRUE, items |-> items]

NotAList == [list |-> FALSE, items |-> <<>>]

Replies ==
    {[text |-> <<"{", "T", "}">>, top |-> List(<<Entry(Pid(1))>>)],
     [text |-> <<"F", "J", " ", "{", "T", "M", "}", " ", "F">>,
      top |-> List(<<Entry(Pid(1))>>)],
     [text |-> <<"{", "T", "}">>, top |-> NotAList],
     [text |-> <<"{", "M", "}">>, top |-> List(<<>>)],
     [text |-> <<"P", " ", "P">>, top |-> List(<<>>)]}

NoReply == [kind |-> "none", text |-> <<>>, top |-> List(<<>>)]

NoDigest == [built |-> FALSE, items |-> <<>>]

StartOfMain ==
    /\ pc = "start"
    /\ reply = NoReply
    /\ exit_code = None
    /\ error = "none"
    /\ cursor = 0
    /\ total = None
    /\ n_dois = 0
    /\ pages = NoPages
    /\ n_papers = None
    /\ n_for_ai = 0
    /\ net = <<>>
    /\ sections = NoDigest
    /\ top_given = List(<<>>)
    /\ sent = <<>>

Init ==
    /\ IdleLoad
    /\ IdleJson
    /\ environ \in Settings
    /\ StartOfMain

\* An exception leaves main: the __main__ guard prints it and re-raises.
Abort(kind) ==
    /\ pc' = "exit"
    /\ exit_code' = 1
    /\ error' = kind

\* main, lines 429-440: the settings read before load_recent_papers is called
MainStart ==
    /\ pc = "start"
    /\ IF \E name \in RequiredInMain : EnvMissing(name)
           THEN Abort("config")
           ELSE pc' = "fetch" /\ UNCHANGED <<exit_code, error>>
    /\ UNCHANGED <<environ, reply, cursor, total, n_dois, pages, n_papers, n_for_ai,
                   net, sections, top_given, sent>>
    /\ UNCHANGED loadVars
    /\ UNCHANGED jsonVars

\* AfterLoad without "if not papers: return 0"
AfterLoadNoEmptyCheck(n) ==
    /\ n_papers' = n
    /\ pc' = "gemini"
    /\ n_for_ai' = ForAi(n)
    /\ UNCHANGED <<exit_code, error>>

\* load_recent_papers has returned n papers: main, lines 443-453
AfterLoad(n) ==
    /\ n_papers' = n
    /\ IF n = 0
           THEN pc' = "exit" /\ exit_code' = 0 /\ n_for_ai' = 0 /\ UNCHANGED error
           ELSE \E topics_ok \in BOOLEAN :
                    IF topics_ok
                        THEN pc' = "gemini" /\ n_for_ai' = ForAi(n)
                             /\ UNCHANGED <<exit_code, error>>
                        ELSE Abort("topics") /\ n_for_ai' = ForAi(n)

\* FetchFailed as a loop that breaks on the error and goes on with its rows
FetchFailedKeepsRows ==
    /\ AfterLoad(n_dois)
    /\ UNCHANGED <<cursor, total, n_dois, pages>>

\* fetch_biorxiv_details raises: nothing in load_recent_papers or main catches it
FetchFailed ==
    /\ Abort("catalog")
    /\ UNCHANGED <<cursor, total, n_dois, pages, n_papers, n_for_ai>>

\* One request of the paging loop and what follows it up to the next blocking
\* call: the loop pass, and when the loop ends, dedupe, sort and main up to
\* call_gemini.
FetchPage ==
    /\ pc = "fetch"
    /\ Cardinality(CatalogRequests) < MaxPages
    /\ \/ \* requests.get, raise_for_status or r.json() raises
          /\ net' = Append(net, [to |-> "catalog", cursor |-> cursor, ok |-> FALSE])
          /\ FetchFailed
       \/ \E payload \in CatalogPayloads :
            LET r == LoopPass(payload) IN
            /\ net' = Append(net, [to |-> "catalog", cursor |-> cursor, ok |-> TRUE])
            /\ pages' = Received(pages, payload)
            /\ cursor' = r.cursor
            /\ total' = r.total
            /\ n_dois' = r.dois
            /\ CASE r.next = "raise" ->
                        Abort("AttributeError") /\ UNCHANGED <<n_papers, n_for_ai>>
                 [] r.next = "again" ->
                        pc' = "fetch" /\ UNCHANGED <<exit_code, error, n_papers, n_for_ai>>
                 [] OTHER -> AfterLoad(r.dois)
    /\ UNCHANGED <<environ, reply, sections, top_given, sent>>
    /\ UNCHANGED loadVars
    /\ UNCHANGED jsonVars

\* main, lines 456-476, after call_gemini returned text: extract_json, the
\* shape check, the first five selections, build_email_html, and send_email
\* up to its connection to the relay.
AfterGemini(r) ==
    LET ai   == extract_json(r.text)
        top  == TopPapersOf(ai.val, r)
        secs == RenderFrom(KeepFirst(top.items), 1)
    IN  IF ~ai.ok
            THEN Abort(ai.err) /\ UNCHANGED <<top_given, sections>>
        ELSE IF ~IsList(top)
            THEN Abort("top_papers") /\ top_given' = top /\ UNCHANGED sections
        ELSE IF Raised(secs)
            THEN Abort("AttributeError") /\ top_given' = top /\ UNCHANGED sections
        ELSE /\ top_given' = top
             /\ sections' = [built |-> TRUE, items |-> secs]
             /\ IF \E name \in RequiredInSend : EnvMissing(name)
                    THEN Abort("config")
                    ELSE pc' = "smtp" /\ UNCHANGED <<exit_code, error>>

\* A decoded response either has candidates[0].content.parts or has not.
ResponseKinds == {"candidates", "no_candidates"}

\* call_gemini, lines 194-197: the request to the primary endpoint
GeminiPrimary(answers) ==
    /\ pc = "gemini"
    /\ \/ /\ net' = Append(net, PrimaryRequest(FALSE))
          /\ pc' = "gemini_alt"
          /\ UNCHANGED <<reply, exit_code, error, top_given, sections>>
       \/ \E kind \in ResponseKinds, answer \in answers :
             /\ net' = Append(net, PrimaryRequest(TRUE))
             /\ reply' = Returned(kind, answer)
             /\ AfterGemini(reply')
    /\ UNCHANGED <<environ, cursor, total, n_dois, pages, n_papers, n_for_ai, sent>>
    /\ UNCHANGED loadVars
    /\ UNCHANGED jsonVars

\* call_gemini, lines 198-201: the request of the except branch
GeminiFallback(answers) ==
    /\ pc = "gemini_alt"
    /\ \/ /\ net' = Append(net, FallbackRequest(FALSE))
          /\ Abort("gemini")
          /\ UNCHANGED <<reply, top_given, sections>>
       \/ \E kind \in ResponseKinds, answer \in answers :
             /\ net' = Append(net, FallbackRequest(TRUE))
             /\ reply' = Returned(kind, answer)
             /\ AfterGemini(reply')
    /\ UNCHANGED <<environ, cursor, total, n_dois, pages, n_papers, n_for_ai, sent>>
    /\ UNCHANGED loadVars
    /\ UNCHANGED jsonVars

\* send_email, lines 419-425: the session with the relay, then main returns 0
SmtpSend ==
    /\ pc = "smtp"
    /\ \E ok \in BOOLEAN :
          /\ net' = Append(net, [to |-> "smtp", ok |-> ok])
          /\ IF ok
              THEN /\ sent' = Append(sent, BuildMessage)
                   /\ pc' = "exit"
                   /\ exit_code' = 0
                   /\ UNCHANGED error
              ELSE Abort("smtp") /\ UNCHANGED sent
    /\ UNCHANGED <<environ, reply, cursor, total, n_dois, pages, n_papers, n_for_ai,
                   sections, top_given>>
    /\ UNCHANGED loadVars
    /\ UNCHANGED jsonVars

Next ==
    \/ MainStart
    \/ FetchPage
    \/ GeminiPrimary(Replies)
    \/ GeminiFallback(Replies)
    \/ SmtpSend

Spec == Init /\ [][Next]_vars

-----------------------------------------------------------------------------
(* C3 *)

\* One of the loop's three reasons to stop holds after the last page received.
StopNow ==
    \/ pages.last = 0
    \/ pages.last < PageSize
    \/ pages.advertised # None /\ pages.rows >= pages.advertised

\* C3: after a page with no rows, or with fewer than 100 rows, or that brings
\* the rows received to the advertised total, the loop requests no further
\* page; after any other page it requests the next one; with a total of 150
\* and pages of 100 rows it has fetched exactly two pages when it stops.
C3_PagingStops ==
    /\ pc = "fetch" /\ pages.count >= 1 => ~StopNow
    /\ pages.count >= 1 /\ ~StopNow /\ Cardinality(CatalogRequests) = pages.count
          => pc = "fetch"
    /\ pc # "fetch" /\ pages.advertised = 150 /\ pages.full => pages.count = 2

-----------------------------------------------------------------------------
(* C4 *)

ConfiguredRecipients ==
    Range(ParseRecipients(environ["EMAIL_TO"]))
        \cup Range(ParseRecipients(environ["EMAIL_CC"]))
        \cup Range(ParseRecipients(environ["EMAIL_BCC"]))

\* C4: a message main hands to the relay goes to every address of EMAIL_TO,
\* EMAIL_CC and EMAIL_BCC, and none of its headers holds a Bcc address.
C4_AllRecipientsNoBccHeader ==
    \A i \in 1..Len(sent) :
        /\ sent[i].rcpts = ConfiguredRecipients
        /\ \A b \in Range(ParseRecipients(environ["EMAIL_BCC"])) :
              /\ b \notin Range(ParseRecipients(sent[i].headers.To))
              /\ b # sent[i].headers.From

-----------------------------------------------------------------------------
(* C5 *)

\* C5: in a run with a required setting absent or empty no request is ever
\* sent, and the run ends with the configuration error.
C5_ConfigErrorBeforeNetwork ==
    (\E name \in Required : EnvMissing(name)) =>
        /\ net = <<>>
        /\ pc = "exit" => error = "config" /\ exit_code = 1

-----------------------------------------------------------------------------
(* C6 *)

GeminiRequests == {i \in 1..Len(net) : net[i].to = "gemini"}

SmtpSessions == {i \in 1..Len(net) : net[i].to = "smtp"}

\* C6: when load_recent_papers returns no paper, main exits with code 0,
\* having sent nothing to the generative-text service and no email; and main
\* exits with code 0 only then or after a successful send.
C6_EmptyCatalogExitsZero ==
    /\ n_papers = 0 =>
          /\ pc = "exit"
          /\ exit_code = 0
          /\ GeminiRequests = {}
          /\ SmtpSessions = {}
          /\ sent = <<>>
    /\ exit_code = 0 =>
          \/ n_papers = 0
          \/ Len(sent) = 1 /\ net[Len(net)] = [to |-> "smtp", ok |-> TRUE]

C6_Witness ==
    /\ n_papers = 0
    /\ exit_code = 0
    /\ pages.rows > 0

-----------------------------------------------------------------------------
(* C7 *)

\* net is catalog requests, then requests to the service, then the relay.
NetInOrder ==
    \A i, j \in 1..Len(net) :
        i < j =>
            /\ net[j].to = "catalog" => net[i].to = "catalog"
            /\ net[j].to = "gemini" => net[i].to \in {"catalog", "gemini"}

\* C7: at most one email is sent, and only after every catalog request, the
\* call of the service, extract_json and the check of top_papers succeeded, in
\* that order; a run that fails at any of them ends with an error and has
\* sent nothing, and a failed catalog request is followed by no other request.
C7_SendOnlyAfterAllSucceeded ==
    /\ Len(sent) <= 1
    /\ NetInOrder
    /\ SmtpSessions # {} =>
          /\ \A i \in CatalogRequests : net[i].ok
          /\ \E i \in GeminiRequests : net[i].ok
          /\ extract_json(reply.text).ok
          /\ top_given.list
    /\ sent # <<>> => SmtpSessions # {} /\ error = "none" /\ exit_code = 0
    /\ error # "none" => sent = <<>> /\ pc = "exit" /\ exit_code = 1
    /\ \A i \in 1..Len(net) : ~net[i].ok /\ net[i].to # "gemini" => i = Len(net)
    /\ \A i \in CatalogRequests : ~net[i].ok => error = "catalog"
    /\ (reply.kind # "none" /\ ~extract_json(reply.text).ok) =>
          error \in {"ValueError", "JSONDecodeError"}
    /\ (reply.kind # "none" /\ extract_json(reply.text).ok /\ ~top_given.list) =>
          error = "top_papers"

C7_Witness ==
    /\ pc = "exit"
    /\ error = "catalog"
    /\ pages.count >= 1
    /\ pages.rows > 0
    /\ sent = <<>>

-----------------------------------------------------------------------------
(* C8 *)

IsPrimary(i) == net[i].to = "gemini" /\ net[i].endpoint = "gemini-2.5-flash"

IsFallback(i) == net[i].to = "gemini" /\ net[i].endpoint = "gemini-2.5-flash-lite"

\* C8: the fallback endpoint is requested only right after the request to the
\* primary endpoint failed, once, with the headers and body of that request;
\* never when the primary request succeeded; and when the fallback request
\* fails the run ends with that error and no further request.
C8_FallbackOnlyAfterPrimaryFailed ==
    /\ Cardinality({i \in 1..Len(net) : IsPrimary(i)}) <= 1
    /\ Cardinality({i \in 1..Len(net) : IsFallback(i)}) <= 1
    /\ \A j \in 1..Len(net) :
          IsFallback(j) =>
              /\ j > 1
              /\ IsPrimary(j - 1)
              /\ ~net[j - 1].ok
              /\ net[j].headers = net[j - 1].headers
              /\ net[j].body = net[j - 1].body
              /\ ~net[j].ok => j = Len(net) /\ pc = "exit" /\ error = "gemini"
    /\ \A i \in 1..Len(net) :
          IsPrimary(i) /\ ~net[i].ok /\ i = Len(net) => pc = "gemini_alt"

C8_Witness ==
    \E j \in 1..Len(net) : IsFallback(j) /\ net[j].ok /\ pc = "smtp"

-----------------------------------------------------------------------------
(* Specification SpecDigest: main from call_gemini on, for every short *)
(* top_papers the service may return                                   *)

\* Entries of top_papers: the first paper, the second (its id padded with a
\* space), the eleventh, and a value that is not a dict.
DigestEntries ==
    {Entry(Pid(1)), Entry(<<" ">> \o Pid(2)), Entry(Pid(11)), NotADict}

DigestReplies ==
    {[text |-> <<"{", "T", "}">>, top |-> List(items)] :
        items \in SeqsUpTo(DigestEntries, MaxTop)}
    \cup {[text |-> <<"{", "T", "}">>, top |-> NotAList]}

\* The first page of the catalog: thirty rows with thirty DOIs, no total
FirstPage ==
    [shape |-> "envelope", len |-> 30, fresh |-> 30, totalf |-> [t |-> "absent"]]

\* main about to call call_gemini, every required setting present, after a
\* catalog of one page
InitDigest ==
    /\ IdleLoad
    /\ IdleJson
    /\ environ \in [DIGEST_INTERESTS : {<<"v">>}, GEMINI_API_KEY : {<<"v">>},
                    SMTP_HOST : {<<"v">>}, SMTP_USER : {<<"v">>},
                    SMTP_PASSWORD : {<<"v">>}, EMAIL_TO : {<<"a">>},
                    EMAIL_CC : {<<>>}, EMAIL_BCC : {<<>>},
                    MAX_PAPERS_FOR_AI : {<<>>, <<"5">>}]
    /\ reply = NoReply
    /\ pc = "gemini"
    /\ exit_code = None
    /\ error = "none"
    /\ cursor = FirstPage.len
    /\ total = None
    /\ n_dois = FirstPage.fresh
    /\ pages = Received(NoPages, FirstPage)
    /\ n_papers = FirstPage.fresh
    /\ n_for_ai = ForAi(FirstPage.fresh)
    /\ net = <<[to |-> "catalog", cursor |-> 0, ok |-> TRUE]>>
    /\ sections = NoDigest
    /\ top_given = List(<<>>)
    /\ sent = <<>>

NextDigest ==
    \/ GeminiPrimary(DigestReplies)
    \/ GeminiFallback(DigestReplies)
    \/ SmtpSend

SpecDigest == InitDigest /\ [][NextDigest]_vars

-----------------------------------------------------------------------------
(* C9 *)

\* The entry at idx names a paper that was sent to the model.
NamesSentPaper(items, idx) ==
    \E p \in 1..n_for_ai : Pid(p) = Strip(items[idx].id)

FirstFiveAreDicts(items) ==
    \A idx \in 1..Len(items) : idx <= 5 => items[idx].dict

\* C9: of a top_papers list only the first five entries are used; an entry
\* whose id names no paper sent to the model is skipped without error; so the
\* digest has at most five paper sections, each for a paper sent to the model,
\* in the order of the list, one for every entry among the first five that
\* names such a paper. A top_papers that is not a list ends the run with an
\* error and no email.
C9_FirstFiveKnownInOrder ==
    /\ reply.kind # "none" /\ extract_json(reply.text).ok /\ ~top_given.list =>
          pc = "exit" /\ error = "top_papers" /\ sent = <<>> /\ ~sections.built
    /\ (/\ reply.kind # "none"
        /\ extract_json(reply.text).ok
        /\ top_given.list
        /\ FirstFiveAreDicts(top_given.items)) =>
          /\ sections.built
          /\ error \in {"none", "smtp"}
          /\ \A idx \in 1..Len(top_given.items) :
                (idx <= 5 /\ NamesSentPaper(top_given.items, idx))
                    <=> \E j \in 1..Len(sections.items) : sections.items[j].idx = idx
    /\ sections.built =>
          /\ Len(sections.items) <= 5
          /\ \A j \in 1..Len(sections.items) :
                /\ sections.items[j].paper \in 1..n_for_ai
                /\ sections.items[j].idx \in 1..Len(top_given.items)
                /\ Pid(sections.items[j].paper)
                      = Strip(top_given.items[sections.items[j].idx].id)
          /\ \A i, j \in 1..Len(sections.items) :
                i < j => sections.items[i].idx < sections.items[j].idx

C9_Witness ==
    /\ sections.built
    /\ Len(top_given.items) = 6
    /\ Len(sections.items) = 4
    /\ n_for_ai < n_papers
    /\ NamesSentPaper(top_given.items, 6)
    /\ Len(sent) = 1

-----------------------------------------------------------------------------
(* Specification SpecJson: extract_json on every short text *)

TextTokens == {"F", " ", "{", "}", "M", "P"}

\* The fences the service puts around its JSON: with or without the json tag,
\* with or without line breaks inside.
Fences == [tag : BOOLEAN, ws : BOOLEAN]

Fenced(f, s) ==
    <<"F">> \o (IF f.tag THEN <<"J">> ELSE <<>>) \o (IF f.ws THEN <<" ">> ELSE <<>>)
        \o s \o (IF f.ws THEN <<" ">> ELSE <<>>) \o <<"F">>

InitJson ==
    /\ IdleMain
    /\ all_rows = <<>>
    /\ deduped = <<>>
    /\ papers = <<>>
    /\ lpc = "idle"
    /\ jtext \in SeqsUpTo(TextTokens, MaxText)
    /\ jfence \in Fences
    /\ jout = <<>>

ExtractBoth ==
    /\ jout = <<>>
    /\ jout' = [plain |-> extract_json(jtext), fenced |-> extract_json(Fenced(jfence, jtext))]
    /\ UNCHANGED <<jtext, jfence>>
    /\ UNCHANGED mainVars
    /\ UNCHANGED loadVars

NextJson == ExtractBoth

SpecJson == InitJson /\ [][NextJson]_vars

-----------------------------------------------------------------------------
(* C10 *)

HasBracePair(s) ==
    \E i, k \in 1..Len(s) : i < k /\ s[i] = "{" /\ s[k] = "}"

NoBrace(s) == \A i \in 1..Len(s) : s[i] \notin {"{", "}"}

\* Prose, then a span from the text's first "{" (at i) to its last "}" (at k).
ProseBeforeSpan(s, i, k) ==
    /\ i < k
    /\ s[i] = "{"
    /\ s[k] = "}"
    /\ NoBrace(SubSeq(s, 1, i - 1))
    /\ NoBrace(SubSeq(s, k + 1, Len(s)))
    /\ \E n \in 1..(i - 1) : s[n] = "P"

\* C10: extract_json returns for a JSON object inside a code fence (tagged json
\* or not) what it returns for the object alone, the object itself; for prose
\* followed by a brace-delimited span it returns what json.loads makes of that
\* span; and for a text without a pair of braces it raises an error and
\* returns nothing.
C10_ExtractJson ==
    jout # <<>> =>
        /\ IsJsonObject(jtext) =>
              /\ jout.plain = JsonLoads(jtext)
              /\ jout.fenced = jout.plain
        /\ \A i, k \in 1..Len(jtext) :
              ProseBeforeSpan(jtext, i, k) => jout.plain = JsonLoads(SubSeq(jtext, i, k))
        /\ ~HasBracePair(jtext) => ~jout.plain.ok
        /\ ~HasBracePair(jtext) => ~jout.fenced.ok

C10_Witness ==
    /\ jout # <<>>
    /\ IsJsonObject(jtext)
    /\ jfence.tag
    /\ jout.fenced.ok
    /\ Len(jout.fenced.val) = 4

====
